---- MODULE Spec2Model ----
(***************************************************************************)
(* A model of src/compiler/rust.rs: the rustc adapter of sccache.          *)
(*                                                                         *)
(* Byte strings (OsString, String, &str) are TLA+ strings.  The byte 0xFF, *)
(* which makes a string invalid UTF-8, is written "~".  An Option<T> is a  *)
(* sequence of at most one element: <<>> is None and <<v>> is Some(v).     *)
(* An argument pair (OsString, Option<OsString>) is <<flag, value>>.       *)
(***************************************************************************)
EXTENDS Naturals, Sequences, FiniteSets, TLC

VARIABLES
    pc,          \* where the invocation stands
    argv,        \* arguments: &[OsString] given to parse_arguments
    parsed,      \* the CompilerArguments<ParsedArguments> it returned
    env_vars,    \* env_vars: &[(OsString, OsString)] given to generate_hash_key
    files,       \* the file system: path -> Option<contents>
    dep_out,     \* the dep-info probe: [ok: exit status 0, file: Option<deps.d>]
    names_out,   \* the file-names probe: [ok: exit status 0, stdout: bytes]
    compiler_shlibs_digests,   \* Rust::compiler_shlibs_digests
    source_hashes,   \* the future returned by hash_source_files
    extern_hashes,   \* the future returned by hash_all(externs)
    m,           \* the bytes fed to the Digest so far
    result,      \* Option<HashResult>
    temp_dir,    \* the TempDir of hash_source_files: "none", "exists", "deleted"
    stage,       \* where the future of hash_source_files stands
    deps,        \* Option<Vec<String>>: what parse_dep_file returned
    source_tasks,    \* the Digest::file tasks of hash_all(files), by index
    extern_tasks,    \* the Digest::file tasks of hash_all(externs), by index
    completed,   \* the tasks in the order in which the pool completed them
    spawned      \* Option<the command Compilation::compile spawned>

taskVars == <<temp_dir, stage, deps, source_tasks, extern_tasks, completed>>

vars == <<pc, argv, parsed, env_vars, files, dep_out, names_out,
          compiler_shlibs_digests, source_hashes, extern_hashes, m, result,
          temp_dir, stage, deps, source_tasks, extern_tasks, completed, spawned>>

----------------------------------------------------------------------------
(* Byte strings *)

\* The bytes that occur, in increasing byte order ("~" is 0xFF).
Alphabet == " ,-./0123456789:=ABCDEFGHIJKLMNOPQRSTUVWXYZ_abcdefghijklmnopqrstuvwxyz~"

InvalidByte == "~"

Char(s, i) == SubSeq(s, i, i)

ByteOrd(c) == CHOOSE i \in 1..Len(Alphabet) : Char(Alphabet, i) = c

\* OsStr::to_str succeeds exactly on valid UTF-8.
RECURSIVE IsUtf8(_)
IsUtf8(s) ==
    IF s = "" THEN TRUE
    ELSE Head(s) # InvalidByte /\ IsUtf8(Tail(s))

\* str::starts_with
StartsWith(s, p) == Len(p) <= Len(s) /\ SubSeq(s, 1, Len(p)) = p

\* str::find: the 1-based position of the first occurrence of pat, 0 for None.
RECURSIVE FindFrom(_, _, _)
FindFrom(s, pat, i) ==
    IF i + Len(pat) - 1 > Len(s) THEN 0
    ELSE IF SubSeq(s, i, i + Len(pat) - 1) = pat THEN i
    ELSE FindFrom(s, pat, i + 1)

Find(s, pat) == FindFrom(s, pat, 1)

\* str::split(sep), collected.
RECURSIVE Split(_, _)
Split(s, sep) ==
    LET i == Find(s, sep) IN
    IF i = 0 THEN <<s>>
    ELSE <<SubSeq(s, 1, i - 1)>> \o Split(SubSeq(s, i + Len(sep), Len(s)), sep)

\* str::splitn(2, sep), collected.
SplitN2(s, sep) ==
    LET i == Find(s, sep) IN
    IF i = 0 THEN <<s>>
    ELSE <<SubSeq(s, 1, i - 1), SubSeq(s, i + Len(sep), Len(s))>>

\* Ord for byte strings: lexicographic by byte.
RECURSIVE StrLess(_, _)
StrLess(a, b) ==
    IF a = "" THEN b # ""
    ELSE IF b = "" THEN FALSE
    ELSE IF Head(a) = Head(b) THEN StrLess(Tail(a), Tail(b))
    ELSE ByteOrd(Head(a)) < ByteOrd(Head(b))

\* Ord for Option<OsString>: None < Some(_).
OptLess(u, v) ==
    IF u = <<>> THEN v # <<>>
    ELSE v # <<>> /\ StrLess(u[1], v[1])

\* Ord for (OsString, Option<OsString>).
PairLess(p, q) ==
    IF p[1] # q[1] THEN StrLess(p[1], q[1]) ELSE OptLess(p[2], q[2])

\* Ord for (OsString, OsString).
EnvLess(p, q) ==
    IF p[1] # q[1] THEN StrLess(p[1], q[1]) ELSE StrLess(p[2], q[2])

\* Vec<String>::sort
RECURSIVE InsertStr(_, _)
InsertStr(x, s) ==
    IF s = <<>> THEN <<x>>
    ELSE IF StrLess(x, Head(s)) THEN <<x>> \o s
    ELSE <<Head(s)>> \o InsertStr(x, Tail(s))

RECURSIVE SortStr(_)
SortStr(s) == IF s = <<>> THEN <<>> ELSE InsertStr(Head(s), SortStr(Tail(s)))

\* String concatenation of a sequence of strings.
RECURSIVE Concat(_)
Concat(ss) == IF ss = <<>> THEN "" ELSE Head(ss) \o Concat(Tail(ss))

Range(s) == {s[i] : i \in 1..Len(s)}

----------------------------------------------------------------------------
(* Constants of the adapter *)

ARGS_WITH_VALUE ==
    { "--cfg", "-L", "-l", "--crate-type", "--crate-name", "--emit", "--print",
      "-o", "--out-dir", "--explain", "--target", "-W", "--warn", "-A",
      "--allow", "-D", "--deny", "-F", "--forbid", "--cap-lints", "-C",
      "--codegen", "--extern", "--sysroot", "-Z", "--error-format", "--color",
      "--pretty", "--unpretty" }

ALLOWED_EMIT == {"link", "dep-info"}

CACHE_VERSION == "2"

----------------------------------------------------------------------------
(* Argument iteration *)

\* str::rfind of one byte in s[..i]: its index, or 0.
RECURSIVE LastIndexFrom(_, _, _)
LastIndexFrom(s, c, i) ==
    IF i = 0 THEN 0
    ELSE IF Char(s, i) = c THEN i
    ELSE LastIndexFrom(s, c, i - 1)

arg_in(arg, set) == arg \in set \/ \E a \in set : StartsWith(arg, a)

\* ArgsIter::next splitting an attached token at its last '='.
ArgsIterNextLastEq(arguments) ==
    LET arg == Head(arguments)
        rest == Tail(arguments)
    IN  IF arg_in(arg, ARGS_WITH_VALUE) THEN
            LET i == LastIndexFrom(arg, "=", Len(arg)) IN
            IF i # 0 THEN
                << <<SubSeq(arg, 1, i - 1), <<SubSeq(arg, i + 1, Len(arg))>> >>, rest >>
            ELSE IF rest = <<>> THEN << <<arg, <<>> >>, rest >>
            ELSE << <<arg, <<Head(rest)>> >>, Tail(rest) >>
        ELSE << <<arg, <<>> >>, rest >>

\* ArgsIter::next leaving a detached value among the tokens left.
ArgsIterNextValueTwice(arguments) ==
    LET arg == Head(arguments)
        rest == Tail(arguments)
    IN  IF arg_in(arg, ARGS_WITH_VALUE) THEN
            LET i == Find(arg, "=") IN
            IF i # 0 THEN
                << <<SubSeq(arg, 1, i - 1), <<SubSeq(arg, i + 1, Len(arg))>> >>, rest >>
            ELSE IF rest = <<>> THEN << <<arg, <<>> >>, rest >>
            ELSE << <<arg, <<Head(rest)>> >>, rest >>
        ELSE << <<arg, <<>> >>, rest >>

\* ArgsIter::next on the tokens left: <<the pair yielded, the tokens left after>>.
ArgsIterNext(arguments) ==
    LET arg == Head(arguments)
        rest == Tail(arguments)
    IN  IF arg_in(arg, ARGS_WITH_VALUE) THEN
            LET i == Find(arg, "=") IN
            IF i # 0 THEN
                << <<SubSeq(arg, 1, i - 1), <<SubSeq(arg, i + 1, Len(arg))>> >>, rest >>
            ELSE IF rest = <<>> THEN << <<arg, <<>> >>, rest >>
            ELSE << <<arg, <<Head(rest)>> >>, Tail(rest) >>
        ELSE << <<arg, <<>> >>, rest >>

\* ArgsIter::new(arguments, ..).collect()
RECURSIVE ArgsIter(_)
ArgsIter(arguments) ==
    IF arguments = <<>> THEN <<>>
    ELSE LET n == ArgsIterNext(arguments) IN <<n[1]>> \o ArgsIter(n[2])

----------------------------------------------------------------------------
(* parse_arguments *)

NotCompilation == [tag |-> "NotCompilation"]
CannotCache(why) == [tag |-> "CannotCache", why |-> why]
Ok(args) == [tag |-> "Ok", args |-> args]

\* The locals of parse_arguments before the scan; ret is the early return.
ScanInit ==
    [ emit |-> <<>>, input |-> <<>>, output_dir |-> <<>>, crate_name |-> <<>>,
      extra_filename |-> <<>>, externs |-> <<>>, ret |-> <<>> ]

NOT_COMPILATION_FLAGS ==
    {"--help", "-V", "--version", "--print", "--explain", "--pretty", "--unpretty"}

\* Crate types with the executables.
CrateTypesWithBin == {"lib", "rlib", "staticlib", "bin"}

CACHEABLE_CRATE_TYPES == {"lib", "rlib", "staticlib"}

\* The scan step keeping the first extra-filename it meets.
ScanStepFirstExtraFilename(st, arg, val) ==
    IF arg \in NOT_COMPILATION_FLAGS THEN [st EXCEPT !.ret = <<NotCompilation>>]
    ELSE IF arg = "-o" THEN [st EXCEPT !.ret = <<CannotCache("-o")>>]
    ELSE IF arg = "-l" THEN [st EXCEPT !.ret = <<CannotCache("-l")>>]
    ELSE IF arg = "--emit" THEN
        IF st.emit # <<>> THEN [st EXCEPT !.ret = <<CannotCache("more than one --emit")>>]
        ELSE [st EXCEPT !.emit = IF val = <<>> THEN <<>>
                                 ELSE <<Range(Split(val[1], ","))>>]
    ELSE IF arg = "--crate-type" THEN
        IF val # <<>> /\ \E t \in Range(Split(val[1], ",")) : t \notin CACHEABLE_CRATE_TYPES
        THEN [st EXCEPT !.ret = <<CannotCache("crate-type")>>]
        ELSE st
    ELSE IF arg = "--out-dir" THEN [st EXCEPT !.output_dir = val]
    ELSE IF arg = "--crate-name" THEN [st EXCEPT !.crate_name = val]
    ELSE IF arg = "--extern" THEN
        IF val # <<>> /\ Len(SplitN2(val[1], "=")) = 2
        THEN [st EXCEPT !.externs = Append(@, SplitN2(val[1], "=")[2])]
        ELSE st
    ELSE IF arg \in {"-C", "--codegen"} THEN
        IF val # <<>> /\ Len(SplitN2(val[1], "=")) = 2
                     /\ SplitN2(val[1], "=")[1] = "extra-filename"
                     /\ st.extra_filename = <<>>
        THEN [st EXCEPT !.extra_filename = <<SplitN2(val[1], "=")[2]>>]
        ELSE st
    ELSE IF arg = "-" THEN [st EXCEPT !.ret = <<CannotCache("stdin")>>]
    ELSE IF ~StartsWith(arg, "-") THEN
        IF st.input # <<>> THEN [st EXCEPT !.ret = <<CannotCache("multiple input files")>>]
        ELSE [st EXCEPT !.input = <<arg>>]
    ELSE st

\* One iteration of `for (arg, val) in it { match arg { .. } }`.
ScanStep(st, arg, val) ==
    IF arg \in NOT_COMPILATION_FLAGS THEN [st EXCEPT !.ret = <<NotCompilation>>]
    ELSE IF arg = "-o" THEN [st EXCEPT !.ret = <<CannotCache("-o")>>]
    ELSE IF arg = "-l" THEN [st EXCEPT !.ret = <<CannotCache("-l")>>]
    ELSE IF arg = "--emit" THEN
        IF st.emit # <<>> THEN [st EXCEPT !.ret = <<CannotCache("more than one --emit")>>]
        ELSE [st EXCEPT !.emit = IF val = <<>> THEN <<>>
                                 ELSE <<Range(Split(val[1], ","))>>]
    ELSE IF arg = "--crate-type" THEN
        IF val # <<>> /\ \E t \in Range(Split(val[1], ",")) : t \notin CACHEABLE_CRATE_TYPES
        THEN [st EXCEPT !.ret = <<CannotCache("crate-type")>>]
        ELSE st
    ELSE IF arg = "--out-dir" THEN [st EXCEPT !.output_dir = val]
    ELSE IF arg = "--crate-name" THEN [st EXCEPT !.crate_name = val]
    ELSE IF arg = "--extern" THEN
        IF val # <<>> /\ Len(SplitN2(val[1], "=")) = 2
        THEN [st EXCEPT !.externs = Append(@, SplitN2(val[1], "=")[2])]
        ELSE st
    ELSE IF arg \in {"-C", "--codegen"} THEN
        IF val # <<>> /\ Len(SplitN2(val[1], "=")) = 2
                     /\ SplitN2(val[1], "=")[1] = "extra-filename"
        THEN [st EXCEPT !.extra_filename = <<SplitN2(val[1], "=")[2]>>]
        ELSE st
    ELSE IF arg = "-" THEN [st EXCEPT !.ret = <<CannotCache("stdin")>>]
    ELSE IF ~StartsWith(arg, "-") THEN
        IF st.input # <<>> THEN [st EXCEPT !.ret = <<CannotCache("multiple input files")>>]
        ELSE [st EXCEPT !.input = <<arg>>]
    ELSE st

\* The scan going on after an early return: the last one is returned.
RECURSIVE ScanToEnd(_, _)
ScanToEnd(st, pairs) ==
    IF pairs = <<>> THEN st
    ELSE ScanToEnd(ScanStep(st, Head(pairs)[1], Head(pairs)[2]), Tail(pairs))

\* The scan: stops at the first early return.
RECURSIVE Scan(_, _)
Scan(st, pairs) ==
    IF pairs = <<>> \/ st.ret # <<>> THEN st
    ELSE Scan(ScanStep(st, Head(pairs)[1], Head(pairs)[2]), Tail(pairs))

\* The required fields checked with output_dir before input.
RequiredFieldsOutputDirFirst(st) ==
    IF st.output_dir = <<>> THEN <<CannotCache("missing output_dir")>>
    ELSE IF st.input = <<>> THEN <<CannotCache("missing input")>>
    ELSE IF st.emit = <<>> THEN <<CannotCache("missing emit")>>
    ELSE IF st.crate_name = <<>> THEN <<CannotCache("missing crate_name")>>
    ELSE <<>>

\* req!(input); req!(output_dir); req!(emit); req!(crate_name): the early return.
RequiredFields(st) ==
    IF st.input = <<>> THEN <<CannotCache("missing input")>>
    ELSE IF st.output_dir = <<>> THEN <<CannotCache("missing output_dir")>>
    ELSE IF st.emit = <<>> THEN <<CannotCache("missing emit")>>
    ELSE IF st.crate_name = <<>> THEN <<CannotCache("missing crate_name")>>
    ELSE <<>>

\* The gates in the other order: the unsupported kinds first.
EmitGateUnsupportedFirst(emit) ==
    IF Cardinality(emit \cup ALLOWED_EMIT) > Cardinality(ALLOWED_EMIT)
    THEN <<CannotCache("unsupported --emit")>>
    ELSE IF emit # {} /\ "link" \notin emit THEN <<NotCompilation>>
    ELSE <<>>

\* The gates with the unsupported kinds let through.
EmitGateLinkOnly(emit) ==
    IF emit # {} /\ "link" \notin emit THEN <<NotCompilation>>
    ELSE <<>>

\* The two gates on the --emit set: the early return.
EmitGate(emit) ==
    IF emit # {} /\ "link" \notin emit THEN <<NotCompilation>>
    ELSE IF Cardinality(emit \cup ALLOWED_EMIT) > Cardinality(ALLOWED_EMIT)
    THEN <<CannotCache("unsupported --emit")>>
    ELSE <<>>

\* The dep-info filename: crate_name, extra_filename, ".d" chained and collected.
DepInfoName(emit, crate_name, extra_filename) ==
    IF "dep-info" \in emit
    THEN <<Concat(<<crate_name>> \o extra_filename \o <<".d">>)>>
    ELSE <<>>

\* What follows the scan.
Finish(st, arguments) ==
    IF RequiredFields(st) # <<>> THEN RequiredFields(st)[1]
    ELSE IF EmitGate(st.emit[1]) # <<>> THEN EmitGate(st.emit[1])[1]
    ELSE Ok([ arguments  |-> ArgsIter(arguments),
              output_dir |-> st.output_dir[1],
              externs    |-> SortStr(st.externs),
              crate_name |-> st.crate_name[1],
              dep_info   |-> DepInfoName(st.emit[1], st.crate_name[1],
                                         st.extra_filename) ])

parse_arguments(arguments) ==
    IF \E i \in 1..Len(arguments) : ~IsUtf8(arguments[i])
    THEN CannotCache("not utf-8")
    ELSE LET st == Scan(ScanInit, ArgsIter(arguments)) IN
         IF st.ret # <<>> THEN st.ret[1] ELSE Finish(st, arguments)

----------------------------------------------------------------------------
(* Digests *)

\* SHA-1 of the file contents that occur, as 40 hex digits.
Sha1Hex(bytes) ==
    CASE bytes = ""               -> "da39a3ee5e6b4b0d3255bfef95601890afd80709"
      [] bytes = "this is a.rlib" -> "13a9be1b3fe5d01b9d816c7a8a65d688882f6e2d"
      [] bytes = "this is b.rlib" -> "593e9ee46e98a451ee3c53883209bc263e6690d2"
      [] bytes = "fn main"        -> "e570ab05fc9bdeaaccde22e4035110400ef42316"

\* Digest::finish of a Digest fed the bytes `stream`: SHA-1, taken as injective.
DigestFinish(stream) == <<"sha1", stream>>

\* usize::hash writes the 8 bytes of the length; written here as 8 decimal digits.
RECURSIVE Decimal(_, _)
Decimal(n, width) ==
    IF width = 0 THEN ""
    ELSE Decimal(n \div 10, width - 1) \o Char("0123456789", (n % 10) + 1)

\* OsString::hash(&mut HashToDigest { digest }): the length, then the bytes.
HashOsString(s) == Decimal(Len(s), 8) \o s

\* Digest::file(path, pool): a failed future when the file cannot be read.
DigestFile(fs, path) ==
    IF path \in DOMAIN fs /\ fs[path] # <<>>
    THEN [ok |-> TRUE, v |-> Sha1Hex(fs[path][1])]
    ELSE [ok |-> FALSE]

\* hash_all: join_all of Digest::file over files, results in the order of `paths`.
hash_all(fs, paths) ==
    LET ds == [i \in 1..Len(paths) |-> DigestFile(fs, paths[i])] IN
    IF \A i \in 1..Len(paths) : ds[i].ok
    THEN [ok |-> TRUE, v |-> [i \in 1..Len(paths) |-> ds[i].v]]
    ELSE [ok |-> FALSE]

----------------------------------------------------------------------------
(* Paths *)

\* Path::join, then to_string_lossy().into_owned()
PathJoin(base, p) ==
    IF StartsWith(p, "/") \/ base = "" THEN p
    ELSE IF Char(base, Len(base)) = "/" THEN base \o p
    ELSE base \o "/" \o p

\* Path::extension of a file path.
PathExtension(p) ==
    LET slash == LastIndexFrom(p, "/", Len(p))
        name  == SubSeq(p, slash + 1, Len(p))
        dot   == LastIndexFrom(name, ".", Len(name))
    IN  IF dot <= 1 THEN <<>> ELSE <<SubSeq(name, dot + 1, Len(name))>>

\* Path::parent as a string with its trailing separator.
PathDir(p) == SubSeq(p, 1, LastIndexFrom(p, "/", Len(p)))

----------------------------------------------------------------------------
(* Rust::new *)

LIBS_DIR == "lib"

DLL_EXTENSION == "so"

\* What `rustc --print=sysroot` prints.
SysrootOut == "/sysroot\n"

WhiteSpace == {" ", "\t", "\r", "\n"}

RECURSIVE TrimRight(_)
TrimRight(s) ==
    IF s # "" /\ Char(s, Len(s)) \in WhiteSpace
    THEN TrimRight(SubSeq(s, 1, Len(s) - 1)) ELSE s

RECURSIVE TrimLeft(_)
TrimLeft(s) == IF s # "" /\ Head(s) \in WhiteSpace THEN TrimLeft(Tail(s)) ELSE s

\* str::trim
Trim(s) == TrimLeft(TrimRight(s))

RECURSIVE SetToSortedStr(_)
SetToSortedStr(S) ==
    IF S = {} THEN <<>>
    ELSE LET x == CHOOSE x \in S : TRUE IN InsertStr(x, SetToSortedStr(S \ {x}))

\* The sorted shared libraries of the sysroot, then hash_all.
RustNewDigests(fs) ==
    LET libs_path == PathJoin(TrimRight(SysrootOut), LIBS_DIR) \o "/"
        libs == { p \in DOMAIN fs : /\ fs[p] # <<>>
                                     /\ PathDir(p) = libs_path
                                     /\ PathExtension(p) = <<DLL_EXTENSION>> }
    IN  hash_all(fs, SetToSortedStr(libs))

----------------------------------------------------------------------------
(* The probes *)

\* str::lines, collected.
RECURSIVE Lines(_)
Lines(text) ==
    IF text = "" THEN <<>>
    ELSE LET i == Find(text, "\n")
             raw == IF i = 0 THEN text ELSE SubSeq(text, 1, i - 1)
             line == IF raw # "" /\ Char(raw, Len(raw)) = "\r"
                     THEN SubSeq(raw, 1, Len(raw) - 1) ELSE raw
         IN  IF i = 0 THEN <<line>>
             ELSE <<line>> \o Lines(SubSeq(text, i + 1, Len(text)))

RECURSIVE JoinAll(_, _)
JoinAll(cwd, toks) ==
    IF toks = <<>> THEN <<>>
    ELSE LET s == Trim(Head(toks)) IN
         (IF s = "" THEN <<>> ELSE <<PathJoin(cwd, s)>>) \o JoinAll(cwd, Tail(toks))

\* The dependencies in the order of the line.
parse_dep_info_unsorted(dep_info, cwd) ==
    IF Lines(dep_info) = <<>> THEN <<>>
    ELSE LET line == Lines(dep_info)[1]
             pos  == Find(line, ": ")
         IN  IF pos = 0 THEN <<>>
             ELSE JoinAll(cwd, Split(SubSeq(line, pos + 2, Len(line)), " "))

parse_dep_info(dep_info, cwd) ==
    IF Lines(dep_info) = <<>> THEN <<>>
    ELSE LET line == Lines(dep_info)[1]
             pos  == Find(line, ": ")
         IN  IF pos = 0 THEN <<>>
             ELSE SortStr(JoinAll(cwd, Split(SubSeq(line, pos + 2, Len(line)), " ")))

\* parse_dep_file taking a file it cannot read for an empty one.
parse_dep_file_lenient(file, cwd) ==
    IF file = <<>> \/ ~IsUtf8(file[1]) THEN [ok |-> TRUE, v |-> <<>>]
    ELSE [ok |-> TRUE, v |-> parse_dep_info(file[1], cwd)]

\* parse_dep_file: File::open and read_to_string fail on a missing or non-UTF-8 file.
parse_dep_file(file, cwd) ==
    IF file = <<>> \/ ~IsUtf8(file[1]) THEN [ok |-> FALSE]
    ELSE [ok |-> TRUE, v |-> parse_dep_info(file[1], cwd)]

\* hash_source_files once the probe has ended with `probe`.
hash_source_files(fs, probe, cwd) ==
    IF ~probe.ok THEN [ok |-> FALSE]
    ELSE LET parsed_deps == parse_dep_file(probe.file, cwd) IN
         IF ~parsed_deps.ok THEN [ok |-> FALSE] ELSE hash_all(fs, parsed_deps.v)

\* get_compiler_outputs once the probe has ended with `probe`.
get_compiler_outputs(probe) ==
    IF ~probe.ok \/ ~IsUtf8(probe.stdout) THEN [ok |-> FALSE]
    ELSE [ok |-> TRUE, v |-> Lines(probe.stdout)]

----------------------------------------------------------------------------
(* generate_hash_key *)

IsSortable(pair) == pair[1] \in {"--extern", "-L", "--cfg"}

\* Vec<&(OsString, Option<OsString>)>::sort
RECURSIVE InsertPair(_, _)
InsertPair(x, s) ==
    IF s = <<>> THEN <<x>>
    ELSE IF PairLess(x, Head(s)) THEN <<x>> \o s
    ELSE <<Head(s)>> \o InsertPair(x, Tail(s))

RECURSIVE SortPairs(_)
SortPairs(s) == IF s = <<>> THEN <<>> ELSE InsertPair(Head(s), SortPairs(Tail(s)))

\* Vec<(OsString, OsString)>::sort
RECURSIVE InsertEnv(_, _)
InsertEnv(x, s) ==
    IF s = <<>> THEN <<x>>
    ELSE IF EnvLess(x, Head(s)) THEN <<x>> \o s
    ELSE <<Head(s)>> \o InsertEnv(x, Tail(s))

\* The environment left in the order given.
SortEnvAsGiven(s) == s

\* env_vars.sort()
RECURSIVE SortEnv(_)
SortEnv(s) == IF s = <<>> THEN <<>> ELSE InsertEnv(Head(s), SortEnv(Tail(s)))

\* flat_map(|(arg, val)| Some(arg).into_iter().chain(val)), collected.
RECURSIVE Flatten(_)
Flatten(pairs) ==
    IF pairs = <<>> THEN <<>>
    ELSE <<Head(pairs)[1]>> \o Head(pairs)[2] \o Flatten(Tail(pairs))

\* filtered_arguments: the arguments of the dep-info probe.
FilteredArguments(arguments) ==
    Flatten(SelectSeq(arguments, LAMBDA p : p[1] \notin {"--emit", "--out-dir"}))

\* The pairs hashed with the sortables left in the order of the command line.
HashOrderUnsorted(arguments) ==
    SelectSeq(arguments, LAMBDA p : ~IsSortable(p))
        \o SelectSeq(arguments, IsSortable)

\* The order in which the pairs are hashed: rest.into_iter().chain(sortables).
HashOrder(arguments) ==
    SelectSeq(arguments, LAMBDA p : ~IsSortable(p))
        \o SortPairs(SelectSeq(arguments, IsSortable))

\* `args`: every flag and value pushed onto one OsString.
ArgsBlob(arguments) == Concat(Flatten(HashOrder(arguments)))

\* var.to_str().map(|s| s.starts_with("CARGO_")).unwrap_or(false)
IsCargoVar(var) == IsUtf8(var) /\ StartsWith(var, "CARGO_")

\* The loop feeding the names of the CARGO_ variables only.
RECURSIVE EnvBytesNamesOnly(_)
EnvBytesNamesOnly(sorted) ==
    IF sorted = <<>> THEN ""
    ELSE (IF IsCargoVar(Head(sorted)[1])
          THEN HashOsString(Head(sorted)[1]) \o "="
          ELSE "") \o EnvBytesNamesOnly(Tail(sorted))

\* The loop over the sorted env_vars.
RECURSIVE EnvBytes(_)
EnvBytes(sorted) ==
    IF sorted = <<>> THEN ""
    ELSE (IF IsCargoVar(Head(sorted)[1])
          THEN HashOsString(Head(sorted)[1]) \o "=" \o HashOsString(Head(sorted)[2])
          ELSE "") \o EnvBytes(Tail(sorted))

\* The closure feeding the extern digests before the source digests.
KeyStreamExternsFirst(shlibs, arguments, sources, externs, env) ==
    CACHE_VERSION
        \o Concat(shlibs)
        \o HashOsString(ArgsBlob(arguments))
        \o Concat(externs \o sources)
        \o EnvBytes(SortEnv(env))

\* Everything the closure feeds to `m`, in order.
KeyStream(shlibs, arguments, sources, externs, env) ==
    CACHE_VERSION
        \o Concat(shlibs)
        \o HashOsString(ArgsBlob(arguments))
        \o Concat(sources \o externs)
        \o EnvBytes(SortEnv(env))

\* The paths given to hash_all for the externs.
ExternPaths(externs, cwd) == [i \in 1..Len(externs) |-> PathJoin(cwd, externs[i])]

\* The outputs map: basename -> output_dir.join(basename), dep_info inserted last.
OutputsMap(outputs, output_dir, dep_info) ==
    [k \in Range(outputs) \cup Range(dep_info) |-> PathJoin(output_dir, k)]

\* The HashResult of a key derivation that succeeded.
HashResult(stream, args, outputs) ==
    [ key |-> DigestFinish(stream),
      compilation |-> [ arguments  |-> Flatten(args.arguments),
                        outputs    |-> OutputsMap(outputs, args.output_dir, args.dep_info),
                        crate_name |-> args.crate_name ] ]

\* The cache key of a whole run on the given inputs, when every step succeeds.
HashKey(shlibs, args, fs, probe, env, cwd) ==
    LET s == hash_source_files(fs, probe, cwd)
        e == hash_all(fs, ExternPaths(args.externs, cwd))
    IN  IF s.ok /\ e.ok
        THEN [ok |-> TRUE,
              key |-> DigestFinish(KeyStream(shlibs, args.arguments, s.v, e.v, env))]
        ELSE [ok |-> FALSE]

----------------------------------------------------------------------------
(* The inputs *)

\* The longest argument vector.
MaxArgs == 12

\* The longest environment list.
MaxEnv == 2

\* test_equal_hashes_externs, first command line.
ExternsVector ==
    <<"--emit", "link", "foo.rs", "--extern", "a=a.rlib", "--out-dir", "out",
      "--crate-name", "foo", "--extern", "b=b.rlib">>

\* test_parse_arguments_simple, the command line with -C extra-filename.
DepInfoVector ==
    <<"--emit", "link,dep-info", "foo.rs", "--out-dir", "out",
      "--crate-name", "my_crate", "-C", "extra-filename=-abcxyz">>

\* The command line that only asks for the dependency file.
DepInfoOnlyVector ==
    <<"--emit", "dep-info", "foo.rs", "--out-dir", "out", "--crate-name", "foo">>

\* Command lines of the unit tests.
BaseVectors ==
    { ExternsVector,
      DepInfoVector,
      DepInfoOnlyVector,
      <<"--emit", "link", "foo.rs", "--out-dir", "out", "--crate-name", "foo">>,
      <<"--emit=link", "foo.rs", "--out-dir", "out", "--crate-name=foo">>,
      <<"--emit", "link", "--out-dir", "out", "--crate-name=foo">>,
      <<"--emit", "link", "foo.rs", "--crate-name=foo">>,
      <<"--emit", "asm", "foo.rs", "--out-dir", "out", "--crate-name=foo">>,
      <<"--emit", "asm,link", "foo.rs", "--out-dir", "out", "--crate-name=foo">>,
      <<"--emit", "link", "foo.rs", "--out-dir", "out">>,
      <<"--crate-name", "foo", "src/lib.rs", "--emit=dep-info,link", "--out-dir", "/out">>,
      <<"--emit", "link", "-l", "bar", "foo.rs", "--out-dir", "out">>,
      <<"--crate-type", "rlib,staticlib", "--emit", "link", "foo.rs", "--out-dir", "out",
        "--crate-name", "foo">>,
      <<"--extern", "b=b.rlib", "--emit", "link", "--extern", "a=a.rlib", "foo.rs",
        "--out-dir", "out", "--crate-name", "foo">>,
      <<"--emit", "link", "-L", "x=x", "foo.rs", "--out-dir", "out",
        "--crate-name", "foo", "-L", "y=y">>,
      <<"--cfg", "feature=b", "--emit", "link", "--cfg", "feature=a", "foo.rs",
        "--out-dir", "out", "--crate-name", "foo">> }

\* The tokens a command line of the tests is varied with.
Tokens ==
    { "-", "-o", "-l", "-lbar", "-ofile", "-g", "--help", "--emit", "--emit=link",
      "--emit=dep-info", "--crate-type=bin", "--crate-type=rlib,staticlib", "--out-dir", "--crate-name", "bar.rs",
      "-C", "--codegen=extra-filename=-b", "-Cextra-filename=-c",
      "--extern", "--extern=c=a.rlib", "--cfg", "f~.rs" }

\* The flag and value pairs a command line of the tests is varied with.
TokenPairs ==
    { <<"-C", "extra-filename=-b">>, <<"--extern", "c=a.rlib">>, <<"--cfg", "ab">>,
      <<"--cfga", "b">>, <<"-L", "z">>, <<"--out-dir", "o2">>, <<"--crate-name", "bar">> }

Snippets == { <<t>> : t \in Tokens } \cup TokenPairs

InsertAt(v, i, snippet) == SubSeq(v, 1, i) \o snippet \o SubSeq(v, i + 1, Len(v))

DeleteAt(v, i) == SubSeq(v, 1, i - 1) \o SubSeq(v, i + 1, Len(v))

\* A test command line, or one with one token deleted or one snippet inserted.
ArgVectors ==
    BaseVectors
        \cup { DeleteAt(vi[1], vi[2]) : vi \in
                 { x \in BaseVectors \X (1..MaxArgs) : x[2] <= Len(x[1]) } }
        \cup { InsertAt(vis[1], vis[2], vis[3]) : vis \in
                 { x \in BaseVectors \X (0..MaxArgs) \X Snippets :
                     x[2] <= Len(x[1]) /\ Len(x[1]) + Len(x[3]) <= MaxArgs } }

cwd == "/cwd"

\* The files of test_equal_hashes_externs, and a sysroot.
DefaultFiles ==
    [ p \in { "/cwd/foo.rs", "/cwd/bar.rs", "/cwd/src/lib.rs", "/cwd/a.rlib",
              "/cwd/b.rlib", "/sysroot/lib/libstd.so", "/sysroot/lib/librustc.so",
              "/sysroot/lib/libcore.rlib" } |->
        CASE p = "/cwd/a.rlib" -> <<"this is a.rlib">>
          [] p = "/cwd/b.rlib" -> <<"this is b.rlib">>
          [] p = "/cwd/foo.rs" -> <<"fn main">>
          [] p = "/sysroot/lib/libstd.so" -> <<"this is a.rlib">>
          [] OTHER -> <<"">> ]

\* The files of test_generate_hash_key (all empty), a sysroot without shared
\* libraries, and a file system where an extern is missing.
FileSystems ==
    { DefaultFiles,
      [p \in DOMAIN DefaultFiles |-> <<"">>],
      [p \in DOMAIN DefaultFiles |->
          IF PathDir(p) = "/sysroot/lib/" THEN <<>> ELSE DefaultFiles[p]],
      [DefaultFiles EXCEPT !["/cwd/b.rlib"] = <<>>] }

\* What mock_dep_info writes for foo.rs and bar.rs.
DefaultDep == [ok |-> TRUE, file |-> <<"blah: bar.rs foo.rs\nbar.rs:\nfoo.rs:\n">>]

DepOutputs ==
    { DefaultDep,
      [ok |-> TRUE, file |-> <<"blah: foo.rs\nfoo.rs:\n">>],
      [ok |-> TRUE, file |-> <<"foo: foo.rs  /cwd/bar.rs\n\nbar.rs: a.rlib\n">>],
      [ok |-> TRUE, file |-> <<"blah: gone.rs\n">>],
      [ok |-> TRUE, file |-> <<>>],
      [ok |-> FALSE, file |-> <<>>] }

\* What mock_file_names prints.
DefaultNames == [ok |-> TRUE, stdout |-> "foo.rlib\nfoo.a"]

NamesOutputs == { DefaultNames, [ok |-> FALSE, stdout |-> ""] }

\* The environment of test_generate_hash_key.
DefaultEnv ==
    << <<"CARGO_PKG_NAME", "foo">>, <<"FOO", "bar">>, <<"CARGO_BLAH", "abc">> >>

EnvPairs ==
    { <<"CARGO_PKG_NAME", "foo">>, <<"CARGO_BLAH", "abc">>, <<"FOO", "bar">>,
      <<"CARGO_~", "abc">> }

EnvLists == UNION { [1..n -> EnvPairs] : n \in 0..MaxEnv }

----------------------------------------------------------------------------
(* The invocation *)

NoResult == [tag |-> "None"]

Init ==
    /\ pc = "new"
    /\ parsed = NoResult
    /\ compiler_shlibs_digests = <<>>
    /\ source_hashes = <<>>
    /\ extern_hashes = <<>>
    /\ m = ""
    /\ result = <<>>
    /\ temp_dir = "none"
    /\ stage = "none"
    /\ deps = <<>>
    /\ source_tasks = <<>>
    /\ extern_tasks = <<>>
    /\ completed = <<>>
    /\ spawned = <<>>
    /\ \/ /\ argv \in ArgVectors
          /\ env_vars = DefaultEnv
          /\ files = DefaultFiles
          /\ dep_out = DefaultDep
          /\ names_out = DefaultNames
       \/ /\ argv \in {ExternsVector, DepInfoVector}
          /\ env_vars \in EnvLists
          /\ files \in FileSystems
          /\ dep_out \in DepOutputs
          /\ names_out \in NamesOutputs

\* Rust::new: hashes the shared libraries of the sysroot.
RustNew ==
    /\ pc = "new"
    /\ LET digests == RustNewDigests(files) IN
       IF digests.ok
       THEN pc' = "ready" /\ compiler_shlibs_digests' = digests.v
       ELSE pc' = "error" /\ UNCHANGED compiler_shlibs_digests
    /\ UNCHANGED <<argv, parsed, env_vars, files, dep_out, names_out,
                   source_hashes, extern_hashes, m, result>>
    /\ UNCHANGED <<taskVars, spawned>>

\* Compiler::parse_arguments
ParseArguments ==
    /\ pc = "ready"
    /\ parsed' = parse_arguments(argv)
    /\ pc' = IF parsed'.tag = "Ok" THEN "parsed" ELSE "rejected"
    /\ UNCHANGED <<argv, env_vars, files, dep_out, names_out, compiler_shlibs_digests,
                   source_hashes, extern_hashes, m, result>>
    /\ UNCHANGED <<taskVars, spawned>>

\* generate_hash_key up to `source_hashes.join(extern_hashes)`: both futures start.
GenerateHashKey ==
    /\ pc = "parsed"
    /\ pc' = "hashing"
    /\ UNCHANGED <<argv, parsed, env_vars, files, dep_out, names_out,
                   compiler_shlibs_digests, source_hashes, extern_hashes, m, result>>
    /\ UNCHANGED <<taskVars, spawned>>

\* The future of hash_source_files completes.
SourceHashesDone ==
    /\ pc = "hashing"
    /\ source_hashes = <<>>
    /\ source_hashes' = <<hash_source_files(files, dep_out, cwd)>>
    /\ UNCHANGED <<pc, argv, parsed, env_vars, files, dep_out, names_out,
                   compiler_shlibs_digests, extern_hashes, m, result>>
    /\ UNCHANGED <<taskVars, spawned>>

\* The future of hash_all(externs) completes.
ExternHashesDone ==
    /\ pc = "hashing"
    /\ extern_hashes = <<>>
    /\ extern_hashes' = <<hash_all(files, ExternPaths(parsed.args.externs, cwd))>>
    /\ UNCHANGED <<pc, argv, parsed, env_vars, files, dep_out, names_out,
                   compiler_shlibs_digests, source_hashes, m, result>>
    /\ UNCHANGED <<taskVars, spawned>>

\* The TempDir outlives the future.
Leaked(dir) == dir

\* What dropping the future of hash_source_files does to its TempDir.
Dropped(dir) == IF dir = "exists" THEN "deleted" ELSE dir

\* Where the future of hash_source_files stands once it is dropped: a probe or
\* a parse that was in flight is left to complete and its result is discarded.
Cancelled(st) ==
    IF st \in {"probe", "parse"} THEN "orphaned"
    ELSE IF st = "hash" THEN "dropped" ELSE st

\* The join fails as soon as one of its futures has failed, and drops them both.
JoinFailed ==
    /\ pc = "hashing"
    /\ \/ source_hashes # <<>> /\ ~source_hashes[1].ok
       \/ extern_hashes # <<>> /\ ~extern_hashes[1].ok
    /\ pc' = "error"
    /\ temp_dir' = Dropped(temp_dir)
    /\ stage' = Cancelled(stage)
    /\ UNCHANGED <<argv, parsed, env_vars, files, dep_out, names_out,
                   compiler_shlibs_digests, source_hashes, extern_hashes, m, result>>
    /\ UNCHANGED <<deps, source_tasks, extern_tasks, completed, spawned>>

\* The futures in the order in which they completed.
JoinedAsCompleted(a, b, order) ==
    IF \E i, j \in 1..Len(order) : i < j /\ order[i] = <<"externs", 0>>
                                        /\ order[j] = <<"sources", 0>>
    THEN <<b, a>> ELSE <<a, b>>

\* source_hashes.join(extern_hashes): the pair (source_hashes, extern_hashes),
\* whichever future completed first.
Joined(a, b, order) == <<a, b>>

\* The closure of hashes.and_then: feeds the digest, starts the file-names probe.
ComposeKey ==
    /\ pc = "hashing"
    /\ source_hashes # <<>> /\ source_hashes[1].ok
    /\ extern_hashes # <<>> /\ extern_hashes[1].ok
    /\ LET hashes == Joined(source_hashes[1].v, extern_hashes[1].v, completed) IN
       m' = KeyStream(compiler_shlibs_digests, parsed.args.arguments,
                      hashes[1], hashes[2], env_vars)
    /\ pc' = "outputs"
    /\ UNCHANGED <<argv, parsed, env_vars, files, dep_out, names_out,
                   compiler_shlibs_digests, source_hashes, extern_hashes, result>>
    /\ UNCHANGED <<taskVars, spawned>>

\* The future of get_compiler_outputs completes: the HashResult, or the error.
CompilerOutputsDone ==
    /\ pc = "outputs"
    /\ names_out # NoResult
    /\ LET outputs == get_compiler_outputs(names_out) IN
       IF outputs.ok
       THEN pc' = "done" /\ result' = <<HashResult(m, parsed.args, outputs.v)>>
       ELSE pc' = "error" /\ UNCHANGED result
    /\ UNCHANGED <<argv, parsed, env_vars, files, dep_out, names_out,
                   compiler_shlibs_digests, source_hashes, extern_hashes, m>>
    /\ UNCHANGED <<taskVars, spawned>>

\* Compilation::compile: spawns the compiler with the arguments of the handle.
Compile ==
    /\ pc = "done"
    /\ pc' = "compiled"
    /\ spawned' = <<[ arguments |-> result[1].compilation.arguments,
                      env_vars  |-> env_vars,
                      cwd       |-> cwd ]>>
    /\ UNCHANGED <<argv, parsed, env_vars, files, dep_out, names_out,
                   compiler_shlibs_digests, source_hashes, extern_hashes, m, result>>
    /\ UNCHANGED taskVars

Next ==
    \/ RustNew
    \/ ParseArguments
    \/ GenerateHashKey
    \/ SourceHashesDone
    \/ ExternHashesDone
    \/ JoinFailed
    \/ ComposeKey
    \/ CompilerOutputsDone
    \/ Compile

Spec == Init /\ [][Next]_vars

----------------------------------------------------------------------------
(* The key derivation with every probe, read and hash task as a step of its own *)

\* The command lines whose key is derived task by task.
TaskVectors == {ExternsVector, DepInfoVector}

\* How the dep-info probe may end: its exit status and the deps.d it leaves.
DepProbeOutcomes ==
    DepOutputs \cup
    { [ok |-> TRUE, file |-> <<text>>] : text \in
        { "",
          "blah:\nfoo.rs: bar.rs\n",
          "\nblah: foo.rs\n",
          "blah: src/lib.rs foo.rs bar.rs",
          "blah:  foo.rs \r\nx: bar.rs",
          "blah: foo.rs  /abs/bar.rs\n\nbar.rs: a.rlib\n",
          "blah: foo.rs\nfoo.rs: bar.rs\n",
          "blah: b: foo.rs\n",
          "blah: f~.rs\n" } } \cup
    { [ok |-> FALSE, file |-> <<"blah: foo.rs\n">>] }

\* How the file-names probe may end: its exit status and its standard output.
NamesProbeOutcomes ==
    NamesOutputs \cup
    { [ok |-> TRUE, stdout |-> text] : text \in
        { "", "foo.rlib\n", "libfoo.rlib\n\nlibfoo.a\n", "foo~.rlib\n" } }

TaskInit ==
    /\ pc = "new"
    /\ parsed = NoResult
    /\ compiler_shlibs_digests = <<>>
    /\ source_hashes = <<>>
    /\ extern_hashes = <<>>
    /\ m = ""
    /\ result = <<>>
    /\ temp_dir = "none"
    /\ stage = "none"
    /\ deps = <<>>
    /\ source_tasks = <<>>
    /\ extern_tasks = <<>>
    /\ completed = <<>>
    /\ spawned = <<>>
    /\ argv \in TaskVectors
    /\ env_vars = DefaultEnv
    /\ files \in FileSystems
    /\ dep_out = NoResult
    /\ names_out = NoResult

\* The tasks hash_all submits to the pool: one per file, none completed.
Submitted(paths) == [i \in 1..Len(paths) |-> <<>>]

\* generate_hash_key up to the join: hash_source_files creates its TempDir and
\* spawns the dep-info probe, or fails at once; hash_all(externs) submits its tasks.
StartKeyDerivation ==
    /\ pc = "parsed"
    /\ pc' = "hashing"
    /\ \E created \in BOOLEAN :
          IF created
          THEN temp_dir' = "exists" /\ stage' = "probe" /\ source_hashes' = <<>>
          ELSE temp_dir' = "none" /\ stage' = "failed"
                  /\ source_hashes' = <<[ok |-> FALSE]>>
    /\ extern_tasks' = Submitted(parsed.args.externs)
    /\ UNCHANGED <<argv, parsed, env_vars, files, dep_out, names_out,
                   compiler_shlibs_digests, extern_hashes, m, result>>
    /\ UNCHANGED <<deps, source_tasks, completed, spawned>>

\* The probe ended so that dep_info.and_then runs its closure.
ProbeAlwaysSucceeded(out) == TRUE

ProbeSucceeded(out) == out.ok

\* run_input_output of the dep-info probe completes: on success the parse of
\* deps.d is spawned on the pool, on failure the closure and its TempDir are dropped.
DepInfoProbeExits ==
    /\ pc = "hashing"
    /\ stage = "probe"
    /\ \E out \in DepProbeOutcomes :
          /\ dep_out' = out
          /\ IF ProbeSucceeded(out)
             THEN stage' = "parse" /\ UNCHANGED <<temp_dir, source_hashes>>
             ELSE stage' = "failed" /\ temp_dir' = Dropped(temp_dir)
                     /\ source_hashes' = <<[ok |-> FALSE]>>
    /\ UNCHANGED <<pc, argv, parsed, env_vars, files, names_out,
                   compiler_shlibs_digests, extern_hashes, m, result>>
    /\ UNCHANGED <<deps, source_tasks, extern_tasks, completed, spawned>>

\* The pool completes parse_dep_file: on success the closure drops the TempDir
\* and hash_all(files) submits its tasks, on failure the closure is dropped.
ParseDepFileDone ==
    /\ pc = "hashing"
    /\ stage = "parse"
    /\ LET files_parsed == parse_dep_file(dep_out.file, cwd) IN
       IF files_parsed.ok
       THEN /\ deps' = <<files_parsed.v>>
            /\ source_tasks' = Submitted(files_parsed.v)
            /\ stage' = "hash"
            /\ UNCHANGED source_hashes
       ELSE /\ stage' = "failed"
            /\ source_hashes' = <<[ok |-> FALSE]>>
            /\ UNCHANGED <<deps, source_tasks>>
    /\ temp_dir' = Dropped(temp_dir)
    /\ UNCHANGED <<pc, argv, parsed, env_vars, files, dep_out, names_out,
                   compiler_shlibs_digests, extern_hashes, m, result>>
    /\ UNCHANGED <<extern_tasks, completed, spawned>>

\* The pool completes one Digest::file task, of the sources or of the externs.
DigestFileDone ==
    /\ pc = "hashing"
    /\ \/ /\ stage = "hash"
          /\ \E i \in 1..Len(source_tasks) :
                /\ source_tasks[i] = <<>>
                /\ source_tasks' =
                     [source_tasks EXCEPT ![i] = <<DigestFile(files, deps[1][i])>>]
                /\ completed' = Append(completed, <<"source", i>>)
          /\ UNCHANGED extern_tasks
       \/ /\ extern_hashes = <<>>
          /\ \E i \in 1..Len(extern_tasks) :
                /\ extern_tasks[i] = <<>>
                /\ extern_tasks' =
                     [extern_tasks EXCEPT ![i] =
                        <<DigestFile(files, ExternPaths(parsed.args.externs, cwd)[i])>>]
                /\ completed' = Append(completed, <<"extern", i>>)
          /\ UNCHANGED source_tasks
    /\ UNCHANGED <<pc, argv, parsed, env_vars, files, dep_out, names_out,
                   compiler_shlibs_digests, source_hashes, extern_hashes, m, result>>
    /\ UNCHANGED <<temp_dir, stage, deps, spawned>>

\* The results in the order in which the tasks of `kind` completed.
CollectedAsCompleted(tasks, kind, order) ==
    LET mine == SelectSeq(order, LAMBDA c : c[1] = kind) IN
    [k \in 1..Len(tasks) |-> tasks[mine[k][2]][1].v]

\* What join_all collects: the i-th result is that of the i-th task.
Collected(tasks, kind, order) == [i \in 1..Len(tasks) |-> tasks[i][1].v]

\* future::join_all over the tasks: pending, failed with the first failure it
\* meets, or the results collected.
join_all(tasks, kind, order) ==
    IF \E i \in 1..Len(tasks) : tasks[i] # <<>> /\ ~tasks[i][1].ok
    THEN <<[ok |-> FALSE]>>
    ELSE IF \A i \in 1..Len(tasks) : tasks[i] # <<>>
    THEN <<[ok |-> TRUE, v |-> Collected(tasks, kind, order)]>>
    ELSE <<>>

\* The future of hash_all(files) completes, and with it that of hash_source_files.
SourceHashAllDone ==
    /\ pc = "hashing"
    /\ stage = "hash"
    /\ join_all(source_tasks, "source", completed) # <<>>
    /\ source_hashes' = join_all(source_tasks, "source", completed)
    /\ stage' = IF source_hashes'[1].ok THEN "done" ELSE "failed"
    /\ completed' = Append(completed, <<"sources", 0>>)
    /\ UNCHANGED <<pc, argv, parsed, env_vars, files, dep_out, names_out,
                   compiler_shlibs_digests, extern_hashes, m, result>>
    /\ UNCHANGED <<temp_dir, deps, source_tasks, extern_tasks, spawned>>

\* The future of hash_all(externs) completes.
ExternHashAllDone ==
    /\ pc = "hashing"
    /\ extern_tasks # <<>> \/ parsed.args.externs = <<>>
    /\ extern_hashes = <<>>
    /\ join_all(extern_tasks, "extern", completed) # <<>>
    /\ extern_hashes' = join_all(extern_tasks, "extern", completed)
    /\ completed' = Append(completed, <<"externs", 0>>)
    /\ UNCHANGED <<pc, argv, parsed, env_vars, files, dep_out, names_out,
                   compiler_shlibs_digests, source_hashes, m, result>>
    /\ UNCHANGED <<temp_dir, stage, deps, source_tasks, extern_tasks, spawned>>

\* run_input_output of the file-names probe completes.
FileNamesProbeExits ==
    /\ pc = "outputs"
    /\ names_out = NoResult
    /\ names_out' \in NamesProbeOutcomes
    /\ UNCHANGED <<pc, argv, parsed, env_vars, files, dep_out,
                   compiler_shlibs_digests, source_hashes, extern_hashes, m, result>>
    /\ UNCHANGED <<taskVars, spawned>>

\* The caller drops the future of generate_hash_key before it completes.
Abandon ==
    /\ pc \in {"hashing", "outputs"}
    /\ pc' = "abandoned"
    /\ temp_dir' = Dropped(temp_dir)
    /\ stage' = Cancelled(stage)
    /\ UNCHANGED <<argv, parsed, env_vars, files, dep_out, names_out,
                   compiler_shlibs_digests, source_hashes, extern_hashes, m, result>>
    /\ UNCHANGED <<deps, source_tasks, extern_tasks, completed, spawned>>

\* The probe or the parse of a dropped derivation comes to its end.
OrphanEnds ==
    /\ stage = "orphaned"
    /\ stage' = "dropped"
    /\ UNCHANGED <<pc, argv, parsed, env_vars, files, dep_out, names_out,
                   compiler_shlibs_digests, source_hashes, extern_hashes, m, result>>
    /\ UNCHANGED <<temp_dir, deps, source_tasks, extern_tasks, completed, spawned>>

TaskNext ==
    \/ RustNew
    \/ ParseArguments
    \/ StartKeyDerivation
    \/ DepInfoProbeExits
    \/ ParseDepFileDone
    \/ DigestFileDone
    \/ SourceHashAllDone
    \/ ExternHashAllDone
    \/ JoinFailed
    \/ ComposeKey
    \/ FileNamesProbeExits
    \/ CompilerOutputsDone
    \/ Abandon
    \/ OrphanEnds
    \/ Compile

TaskSpec == TaskInit /\ [][TaskNext]_vars

----------------------------------------------------------------------------
(* What a command line holds, read off the pairs of its arguments *)

\* parse_arguments has just returned.
Parsed == pc \in {"parsed", "rejected"}

AllUtf8(args) ==
    \A i \in 1..Len(args) : \A j \in 1..Len(args[i]) : Char(args[i], j) # "~"

\* The pairs with the flag `flag`, by position.
Occurrences(pairs, flag) == { i \in 1..Len(pairs) : pairs[i][1] = flag }

Last(S) == CHOOSE i \in S : \A j \in S : j <= i

\* The value of the last pair with the flag `flag`.
LastValue(pairs, flag) ==
    LET occ == Occurrences(pairs, flag) IN
    IF occ = {} THEN <<>> ELSE pairs[Last(occ)][2]

\* The input files: the tokens that are no flag and no value of a flag.
Inputs(pairs) == { i \in 1..Len(pairs) : Char(pairs[i][1], 1) # "-" }

\* The kinds of a --emit or --crate-type value.
Kinds(value) == Range(Split(value, ","))

\* A pair that ends the scan by itself.
IsTerminalPair(p) ==
    \/ p[1] \in {"--help", "-V", "--version", "--print", "--explain", "--pretty",
                 "--unpretty", "-o", "-l", "-"}
    \/ /\ p[1] = "--crate-type"
       /\ p[2] # <<>>
       /\ Kinds(p[2][1]) \ {"lib", "rlib", "staticlib"} # {}

\* The scan reaches the end of the arguments.
NoTerminalToken(args, pairs) ==
    /\ AllUtf8(args)
    /\ \A i \in 1..Len(pairs) : ~IsTerminalPair(pairs[i])
    /\ Cardinality(Inputs(pairs)) <= 1
    /\ Cardinality(Occurrences(pairs, "--emit")) <= 1

\* One input file, an --out-dir, a --crate-name, exactly one --emit, nothing terminal.
CompleteCommandLine(args, pairs) ==
    /\ NoTerminalToken(args, pairs)
    /\ Cardinality(Inputs(pairs)) = 1
    /\ LastValue(pairs, "--out-dir") # <<>>
    /\ LastValue(pairs, "--crate-name") # <<>>
    /\ Cardinality(Occurrences(pairs, "--emit")) = 1
    /\ LastValue(pairs, "--emit") # <<>>

EmitKinds(pairs) == Kinds(LastValue(pairs, "--emit")[1])

----------------------------------------------------------------------------
(* What a finished key derivation holds *)

\* generate_hash_key has returned its HashResult.
Hashed == pc = "done"

\* The injections of the index set S into 1..n.
Injections(S, n) == { f \in [S -> 1..n] : \A i, j \in S : i # j => f[i] # f[j] }

\* The permutations of a sequence.
PermutationsOf(seq) ==
    { [i \in 1..Len(seq) |-> seq[f[i]]] : f \in Injections(1..Len(seq), Len(seq)) }

\* The file contents a file may be changed to.
Contents == {"", "this is a.rlib", "this is b.rlib", "fn main"}

\* The cache key generate_hash_key returns on the shared-library digests, files
\* and environment given, with the arguments and the probe outputs of the state.
KeyOf(shlibs, fs, env) == HashKey(shlibs, parsed.args, fs, dep_out, env, cwd)

\* The cache key the closure of generate_hash_key makes of the arguments and the
\* environment given, with the file digests of the state.
KeyWith(arguments, env) ==
    DigestFinish(KeyStream(compiler_shlibs_digests, arguments,
                           source_hashes[1].v, extern_hashes[1].v, env))

----------------------------------------------------------------------------
(* C1 *)

\* The pair list with its sortable pairs (those at the indices DOMAIN f) moved to
\* the positions f gives them, the other pairs filling the rest in their order.
Moved(arguments, f) ==
    LET rest == SelectSeq(arguments, LAMBDA p : ~IsSortable(p)) IN
    [ j \in 1..Len(arguments) |->
        IF \E i \in DOMAIN f : f[i] = j
        THEN arguments[CHOOSE i \in DOMAIN f : f[i] = j]
        ELSE rest[j - Cardinality({ i \in DOMAIN f : f[i] < j })] ]

\* Every permutation that only moves the --extern, -L and --cfg pairs.
SortableMoves(arguments) ==
    LET S == { i \in 1..Len(arguments) : IsSortable(arguments[i]) } IN
    { Moved(arguments, f) : f \in Injections(S, Len(arguments)) }

\* C1: a permutation of the argument pairs that only moves the --extern, -L and
\* --cfg pairs leaves the cache key unchanged, the files, the environment and the
\* probe outputs being the same.
C1_SortableOrder ==
    Hashed =>
        \A q \in SortableMoves(parsed.args.arguments) :
            KeyWith(q, env_vars) = result[1].key

C1_Witness ==
    /\ Hashed
    /\ \E q \in SortableMoves(parsed.args.arguments) :
          /\ SelectSeq(q, IsSortable) # SelectSeq(parsed.args.arguments, IsSortable)
          /\ SelectSeq(q, IsSortable) # SortPairs(SelectSeq(q, IsSortable))
          /\ q[1] # parsed.args.arguments[1]

----------------------------------------------------------------------------
(* C2 *)

\* The argument vectors that write one occurrence of a flag with its value in the
\* other form: attached where it is detached, detached where it is attached.
RECURSIVE OtherForms(_)
OtherForms(arguments) ==
    IF arguments = <<>> THEN {}
    ELSE LET n == ArgsIterNext(arguments)
             pair == n[1]
             taken == Len(arguments) - Len(n[2])
             here == IF pair[2] = <<>> THEN {}
                     ELSE IF taken = 2
                     THEN { <<pair[1] \o "=" \o pair[2][1]>> \o n[2] }
                     ELSE { <<pair[1], pair[2][1]>> \o n[2] }
         IN  here \cup { SubSeq(arguments, 1, taken) \o w : w \in OtherForms(n[2]) }

\* C2: writing one occurrence of a flag and its value attached (flag=value) or
\* detached (flag, value) gives the same pairs from ArgsIter and the same result
\* from parse_arguments.
C2_AttachedDetached ==
    Parsed =>
        \A w \in OtherForms(argv) :
            /\ ArgsIter(w) = ArgsIter(argv)
            /\ parse_arguments(w) = parsed

C2_Witness ==
    /\ Parsed
    /\ parsed.tag = "Ok"
    /\ \E w \in OtherForms(argv) : Len(w) < Len(argv) /\ parse_arguments(w) = parsed
    /\ \E w \in OtherForms(argv) : Len(w) > Len(argv) /\ parse_arguments(w) = parsed
    /\ \E i \in 1..Len(parsed.args.arguments) :
          parsed.args.arguments[i][2] # <<>> /\ Find(parsed.args.arguments[i][2][1], "=") # 0

----------------------------------------------------------------------------
(* C3 *)

IsSortedPairs(s) == \A i, j \in 1..Len(s) : i < j => ~PairLess(s[j], s[i])

IsSortedEnv(s) == \A i, j \in 1..Len(s) : i < j => ~EnvLess(s[j], s[i])

\* The bytes of one pair: the flag, then the value.
PairBytes(p) == p[1] \o (IF p[2] = <<>> THEN "" ELSE p[2][1])

\* The canonical argument blob: the other pairs in the order of the command line,
\* then the --extern, -L and --cfg pairs sorted by (flag, value).
ExpectedBlob ==
    LET arguments == parsed.args.arguments
        rest == SelectSeq(arguments, LAMBDA p : p[1] \notin {"--extern", "-L", "--cfg"})
        sorted == CHOOSE s \in PermutationsOf(
                      SelectSeq(arguments, LAMBDA p : p[1] \in {"--extern", "-L", "--cfg"})) :
                      IsSortedPairs(s)
        order == rest \o sorted
    IN  Concat([i \in 1..Len(order) |-> PairBytes(order[i])])

\* The digests of the files at `paths`, in that order.
ExpectedDigests(paths) == [i \in 1..Len(paths) |-> Sha1Hex(files[paths[i]][1])]

\* The CARGO_ pairs of the environment in sorted order, each as name, '=', value.
ExpectedEnv ==
    LET sorted == CHOOSE s \in PermutationsOf(env_vars) : IsSortedEnv(s)
        cargo == SelectSeq(sorted, LAMBDA e : IsUtf8(e[1]) /\ StartsWith(e[1], "CARGO_"))
    IN  Concat([i \in 1..Len(cargo) |->
                  HashOsString(cargo[i][1]) \o "=" \o HashOsString(cargo[i][2])])

\* The updates of the digest, in order.
ExpectedUpdates ==
    <<"2">>
        \o compiler_shlibs_digests
        \o <<HashOsString(ExpectedBlob)>>
        \o ExpectedDigests(parse_dep_info(dep_out.file[1], cwd))
        \o ExpectedDigests([i \in 1..Len(parsed.args.externs) |->
                              PathJoin(cwd, parsed.args.externs[i])])
        \o <<ExpectedEnv>>

----------------------------------------------------------------------------
(* C4 *)

\* The file system with the file at `path` holding `bytes`.
WithContents(fs, path, bytes) == [fs EXCEPT ![path] = <<bytes>>]

\* The source files the dep-info probe lists.
SourceFiles == Range(parse_dep_info(dep_out.file[1], cwd))

\* The extern artifacts named by --extern name=path.
ExternFiles == { PathJoin(cwd, parsed.args.externs[i]) : i \in 1..Len(parsed.args.externs) }

\* The shared libraries of the sysroot.
SysrootLibs ==
    { p \in DOMAIN files : /\ files[p] # <<>>
                           /\ StartsWith(p, "/sysroot/lib/")
                           /\ PathExtension(p) = <<"so">> }

\* The environment variables whose name is UTF-8 and begins with CARGO_.
CargoVars ==
    { i \in 1..Len(env_vars) :
        IsUtf8(env_vars[i][1]) /\ StartsWith(env_vars[i][1], "CARGO_") }

\* The values a variable may be changed to.
Values == {"", "abc", "bar", "foo"}

----------------------------------------------------------------------------
(* C5 *)

\* The names that do not begin with CARGO_ a variable may take.
OtherNames == {"FOO", "CARGO"}

\* The variables of the environment whose name does not begin with CARGO_.
OtherVars == { i \in 1..Len(env_vars) : ~StartsWith(env_vars[i][1], "CARGO_") }

\* The environments that differ from env_vars by the order of the list, or by one
\* variable whose name does not begin with CARGO_ added, removed or changed.
OtherEnvironments ==
    PermutationsOf(env_vars)
        \cup { DeleteAt(env_vars, i) : i \in OtherVars }
        \cup { [env_vars EXCEPT ![i] = <<nv[1], nv[2]>>] :
                 i \in OtherVars, nv \in OtherNames \X {"", "bar"} }
        \cup { InsertAt(env_vars, i, << <<nv[1], nv[2]>> >>) :
                 i \in 0..Len(env_vars), nv \in OtherNames \X {"", "bar"} }

\* C5: permuting the environment list, or adding, removing or changing a variable
\* whose name does not begin with CARGO_, leaves the cache key unchanged, the
\* probe outputs being the same.
C5_OtherVariables ==
    Hashed =>
        \A env \in OtherEnvironments :
            KeyWith(parsed.args.arguments, env) = result[1].key

C5_Witness ==
    /\ Hashed
    /\ OtherVars # {}
    /\ \E i, j \in 1..Len(env_vars) :
          /\ i < j
          /\ IsCargoVar(env_vars[i][1]) /\ IsCargoVar(env_vars[j][1])
          /\ EnvLess(env_vars[j], env_vars[i])
    /\ \E env \in OtherEnvironments :
          /\ Len(env) > Len(env_vars)
          /\ KeyWith(parsed.args.arguments, env) = result[1].key

----------------------------------------------------------------------------
(* C6 *)

\* The pair list with the first n bytes of pair i's flag and value as its flag,
\* the rest as its value.
ShiftBoundary(arguments, i, n) ==
    LET bytes == arguments[i][1] \o arguments[i][2][1] IN
    [arguments EXCEPT ![i] = <<SubSeq(bytes, 1, n), <<SubSeq(bytes, n + 1, Len(bytes))>> >>]

\* The pair lists with the boundary between one flag and its value moved by one
\* byte, which ArgsIter yields for some command line.
BoundaryShifts(arguments) ==
    { q \in UNION { { ShiftBoundary(arguments, i, n) :
                        n \in { k \in { Len(arguments[i][1]) - 1, Len(arguments[i][1]) + 1 } :
                                  k <= Len(arguments[i][1] \o arguments[i][2][1]) } } :
                    i \in { k \in 1..Len(arguments) : arguments[k][2] # <<>> } } :
        ArgsIter(Flatten(q)) = q }

\* The two pair lists are equal up to the order of their --extern, -L and --cfg pairs.
SameUpToSortables(a, b) ==
    /\ SelectSeq(a, LAMBDA p : ~IsSortable(p)) = SelectSeq(b, LAMBDA p : ~IsSortable(p))
    /\ SelectSeq(b, IsSortable) \in PermutationsOf(SelectSeq(a, IsSortable))

\* The argument bytes: the OsString `args` that args.hash feeds to the digest.
ArgumentBytes(arguments) == ArgsBlob(arguments)

\* C6: two argument pair lists that are not equal up to the order of their
\* --extern, -L and --cfg pairs never feed the same argument bytes to the digest.
C6_ArgumentsUnambiguous ==
    Hashed =>
        \A q \in BoundaryShifts(parsed.args.arguments) :
            ~SameUpToSortables(q, parsed.args.arguments)
                => ArgumentBytes(q) # ArgumentBytes(parsed.args.arguments)

----------------------------------------------------------------------------
(* C7 *)

\* C7, as stated: a complete command line whose --emit set holds a kind outside
\* {link, dep-info} is classified CannotCache("unsupported --emit").
C7_UnsupportedEmitAsStated ==
    Parsed =>
        LET pairs == ArgsIter(argv) IN
        (CompleteCommandLine(argv, pairs) /\ EmitKinds(pairs) \ {"link", "dep-info"} # {})
            => parsed = [tag |-> "CannotCache", why |-> "unsupported --emit"]

\* C7, amended: a complete command line whose --emit set holds link and a kind
\* outside {link, dep-info} is classified CannotCache("unsupported --emit").
C7_UnsupportedEmitWithLink ==
    Parsed =>
        LET pairs == ArgsIter(argv) IN
        (CompleteCommandLine(argv, pairs) /\ "link" \in EmitKinds(pairs)
                /\ EmitKinds(pairs) \ {"link", "dep-info"} # {})
            => parsed = [tag |-> "CannotCache", why |-> "unsupported --emit"]

C7_Witness ==
    /\ Parsed
    /\ parsed.tag = "CannotCache"
    /\ LET pairs == ArgsIter(argv) IN
       /\ CompleteCommandLine(argv, pairs)
       /\ {"link", "asm"} \subseteq EmitKinds(pairs)

----------------------------------------------------------------------------
(* C8 *)

\* C8: a complete command line whose --emit set is non-empty and does not hold
\* link is classified NotCompilation.
C8_EmitWithoutLink ==
    Parsed =>
        LET pairs == ArgsIter(argv) IN
        (CompleteCommandLine(argv, pairs) /\ EmitKinds(pairs) # {}
                /\ "link" \notin EmitKinds(pairs))
            => parsed = [tag |-> "NotCompilation"]

C8_Witness ==
    /\ Parsed
    /\ parsed.tag = "NotCompilation"
    /\ LET pairs == ArgsIter(argv) IN
       /\ CompleteCommandLine(argv, pairs)
       /\ EmitKinds(pairs) = {"dep-info"}

----------------------------------------------------------------------------
(* C9 *)

\* The required fields that are absent at the end of the scan, in the order
\* input, output_dir, emit, crate_name.
AbsentFields(pairs) ==
    SelectSeq(<<"input", "output_dir", "emit", "crate_name">>,
              LAMBDA f : CASE f = "input"      -> Inputs(pairs) = {}
                           [] f = "output_dir" -> LastValue(pairs, "--out-dir") = <<>>
                           [] f = "emit"       -> LastValue(pairs, "--emit") = <<>>
                           [] f = "crate_name" -> LastValue(pairs, "--crate-name") = <<>>)

\* C9: when the scan ends without a terminal classification and a required
\* field is absent, the result is CannotCache("missing <field>") for the first
\* absent field in the order input, output_dir, emit, crate_name.
C9_MissingField ==
    Parsed =>
        LET pairs == ArgsIter(argv)
            absent == AbsentFields(pairs)
        IN  (NoTerminalToken(argv, pairs) /\ absent # <<>>)
                => parsed = [tag |-> "CannotCache", why |-> "missing " \o absent[1]]

C9_Witness ==
    /\ Parsed
    /\ parsed.tag = "CannotCache"
    /\ LET pairs == ArgsIter(argv) IN
       /\ NoTerminalToken(argv, pairs)
       /\ AbsentFields(pairs) = <<"output_dir", "crate_name">>
       /\ parsed.why = "missing output_dir"

----------------------------------------------------------------------------
(* C10 *)

\* The pairs that give -C/--codegen extra-filename=, by position.
ExtraFilenames(pairs) ==
    { i \in Occurrences(pairs, "-C") \cup Occurrences(pairs, "--codegen") :
        pairs[i][2] # <<>> /\ StartsWith(pairs[i][2][1], "extra-filename=") }

LastExtraFilename(pairs) ==
    LET given == ExtraFilenames(pairs) IN
    IF given = {} THEN ""
    ELSE SubSeq(pairs[Last(given)][2][1], 16, Len(pairs[Last(given)][2][1]))

\* C10: for an accepted command line, dep_info is present exactly when the
\* --emit set holds dep-info, and is then the --crate-name value, the value of
\* the last -C/--codegen extra-filename= (empty when absent), and ".d".
C10_DepInfoName ==
    (Parsed /\ parsed.tag = "Ok") =>
        LET pairs == ArgsIter(argv) IN
        /\ (parsed.args.dep_info # <<>>) <=> ("dep-info" \in EmitKinds(pairs))
        /\ parsed.args.dep_info # <<>>
             => parsed.args.dep_info[1] =
                  LastValue(pairs, "--crate-name")[1] \o LastExtraFilename(pairs) \o ".d"

C10_Witness ==
    /\ Parsed
    /\ parsed.tag = "Ok"
    /\ parsed.args.dep_info = <<"my_crate-b.d">>
    /\ LET pairs == ArgsIter(argv) IN
       /\ Cardinality(ExtraFilenames(pairs)) = 2
       /\ LastExtraFilename(pairs) = "-b"

----------------------------------------------------------------------------
(* C11: parse_dep_info reads the first line only *)

\* The working directories of test_parse_dep_info and test_parse_dep_info_cwd.
WorkingDirs == {"", "foo/", "/cwd"}

\* The text up to its first line feed, without a carriage return before it.
FirstLine(text) ==
    LET ends == { i \in 1..Len(text) : Char(text, i) = "\n" }
        upto == IF ends = {} THEN Len(text)
                ELSE (CHOOSE i \in ends : \A j \in ends : i <= j) - 1
    IN  IF upto >= 1 /\ Char(text, upto) = "\r"
        THEN SubSeq(text, 1, upto - 1) ELSE SubSeq(text, 1, upto)

\* Where the first `: ` of the line begins, 0 when it has none.
FirstColonSpace(line) ==
    LET at == { i \in 1..(Len(line) - 1) : SubSeq(line, i, i + 1) = ": " } IN
    IF at = {} THEN 0 ELSE CHOOSE i \in at : \A j \in at : i <= j

\* The space-separated tokens of the field, trimmed, the empty ones left out,
\* in the order of the field.
RECURSIVE TokensFrom(_, _)
TokensFrom(field, i) ==
    IF i > Len(field) THEN <<>>
    ELSE IF Char(field, i) = " " THEN TokensFrom(field, i + 1)
    ELSE LET spaces == { j \in i..Len(field) : Char(field, j) = " " }
             stop == IF spaces = {} THEN Len(field) + 1
                     ELSE CHOOSE j \in spaces : \A k \in spaces : j <= k
             token == Trim(SubSeq(field, i, stop - 1))
         IN  (IF token = "" THEN <<>> ELSE <<token>>) \o TokensFrom(field, stop)

\* The working directory joined with a token: an absolute token stays unchanged.
Joined_cwd(dir, token) ==
    IF Char(token, 1) = "/" \/ dir = "" THEN token
    ELSE IF Char(dir, Len(dir)) = "/" THEN dir \o token ELSE dir \o "/" \o token

\* The dependencies the first line of the text names, in the order of the line.
NamedDeps(text, dir) ==
    LET line == FirstLine(text)
        pos  == FirstColonSpace(line)
    IN  IF text = "" \/ pos = 0 THEN <<>>
        ELSE LET toks == TokensFrom(SubSeq(line, pos + 2, Len(line)), 1) IN
             [i \in 1..Len(toks) |-> Joined_cwd(dir, toks[i])]

\* The list is in lexicographic order.
IsSortedStr(s) == \A i \in 1..(Len(s) - 1) : ~StrLess(s[i + 1], s[i])

\* How many times x occurs in the list.
CountOf(list, x) == Cardinality({ i \in 1..Len(list) : list[i] = x })

\* The list is the list of the dependencies of the first line, sorted.
IsSortedDepsOf(list, text, dir) ==
    LET named == NamedDeps(text, dir) IN
    /\ IsSortedStr(list)
    /\ Len(list) = Len(named)
    /\ \A i \in 1..Len(named) : CountOf(list, named[i]) = CountOf(named, named[i])

\* The texts of deps.d the dep-info probe may leave.
DepTexts == { out.file[1] : out \in { o \in DepProbeOutcomes : o.file # <<>> } }

\* C11: the list parsed from deps.d is the sorted list of the working directory
\* joined with each non-empty (once trimmed) space-separated token after the first
\* `: ` of the first line, an absolute token unchanged; it is the same for every
\* text with the same first line, and it is empty when the text has no lines or
\* its first line has no `: `.
C11_FirstLineOnly ==
    [][ (stage = "parse" /\ stage' = "hash") =>
            LET text == dep_out.file[1]
                line == FirstLine(text)
                same == { other \in DepTexts : FirstLine(other) = line }
            IN  /\ deps' # <<>>
                /\ IsSortedDepsOf(deps'[1], text, cwd)
                /\ \A dir \in WorkingDirs :
                      LET list == parse_dep_info(text, dir) IN
                      /\ IsSortedDepsOf(list, text, dir)
                      /\ \A other \in same : parse_dep_info(other, dir) = list
                /\ (text = "" \/ FirstColonSpace(line) = 0) => deps'[1] = <<>> ]_vars

\* deps.d with a second line that names a dependency, whose first line names a
\* relative and an absolute path out of order: the parsed list is sorted.
C11_Witness ==
    /\ stage = "hash"
    /\ deps = << <<"/abs/bar.rs", "/cwd/foo.rs">> >>
    /\ dep_out.file = <<"blah: foo.rs  /abs/bar.rs\n\nbar.rs: a.rlib\n">>

----------------------------------------------------------------------------
(* C12: hash_all keeps the order of its input *)

\* The hashes are those of the files at the paths, index by index.
IsDigestsOf(hashes, paths) ==
    /\ Len(hashes) = Len(paths)
    /\ \A i \in 1..Len(paths) : hashes[i] = Sha1Hex(files[paths[i]][1])

\* The task `later` of `kind` completed before the task `earlier`.
CompletedBefore(kind, later, earlier) ==
    \E i, j \in 1..Len(completed) :
        i < j /\ completed[i] = <<kind, later>> /\ completed[j] = <<kind, earlier>>

\* C12: when every task of a hash_all succeeds, its result has the length of the
\* file list and its i-th element is the digest of the i-th file, in whatever
\* order the pool completed the tasks.
C12_InputOrder ==
    /\ (stage = "done") => IsDigestsOf(source_hashes[1].v, deps[1])
    /\ (extern_hashes # <<>> /\ extern_hashes[1].ok) =>
           IsDigestsOf(extern_hashes[1].v, ExternPaths(parsed.args.externs, cwd))

\* Two source files with different digests, hashed in the reverse of their order.
C12_Witness ==
    /\ stage = "done"
    /\ Len(deps[1]) = 2
    /\ source_hashes[1].v[1] # source_hashes[1].v[2]
    /\ CompletedBefore("source", 2, 1)

----------------------------------------------------------------------------
(* C13: the key does not depend on the interleaving *)

\* The entry `first` of the completion log comes before the entry `second`.
LoggedBefore(first, second) ==
    \E i, j \in 1..Len(completed) :
        i < j /\ completed[i] = first /\ completed[j] = second

\* C13: the key generate_hash_key returns is the one key its inputs (parsed
\* arguments, shared-library digests, file contents, environment, dep-info probe
\* output) determine, however the probe, the source hash tasks and the extern
\* hash tasks were interleaved.
C13_SameKey ==
    Hashed => result[1].key = KeyOf(compiler_shlibs_digests, files, env_vars).key

\* A key derived with the externs hashed before the sources, the second extern
\* before the first, and the source and extern digests different.
C13_Witness ==
    /\ Hashed
    /\ LoggedBefore(<<"externs", 0>>, <<"sources", 0>>)
    /\ LoggedBefore(<<"extern", 2>>, <<"extern", 1>>)
    /\ LoggedBefore(<<"extern", 1>>, <<"source", 1>>)
    /\ source_hashes[1].v # extern_hashes[1].v

----------------------------------------------------------------------------
(* C14: a failure anywhere fails the key derivation *)

\* TempDir::new failed.
TempDirFailed == stage = "failed" /\ temp_dir = "none"

\* The dep-info probe exited non-zero or did not run.
DepProbeFailed == dep_out # NoResult /\ ~dep_out.ok

\* The file-names probe exited non-zero or did not run.
NamesProbeFailed == names_out # NoResult /\ ~names_out.ok

\* The probe succeeded and parse_dep_file could not read deps.d.
DepFileUnreadable ==
    /\ stage = "failed"
    /\ dep_out # NoResult /\ dep_out.ok
    /\ dep_out.file = <<>> \/ ~IsUtf8(dep_out.file[1])

\* A Digest::file task of the list failed.
TaskFailed(tasks) == \E i \in 1..Len(tasks) : tasks[i] # <<>> /\ ~tasks[i][1].ok

AnyFailure ==
    \/ TempDirFailed
    \/ DepProbeFailed
    \/ NamesProbeFailed
    \/ DepFileUnreadable
    \/ TaskFailed(source_tasks)
    \/ TaskFailed(extern_tasks)

\* generate_hash_key has not returned a HashResult.
NoHashResult == result = <<>> /\ pc \notin {"done", "compiled"}

\* The key derivation has ended.
Ended == pc \notin {"new", "parsed", "hashing", "outputs"}

\* C14: once the temp directory could not be created, a probe has failed, deps.d
\* could not be read or a hash task has failed, generate_hash_key holds no
\* HashResult, and when it has ended it has ended with an error, or dropped by
\* its caller.
C14_FailurePropagates ==
    AnyFailure => /\ NoHashResult
                  /\ Ended => pc \in {"error", "abandoned"}

\* The dep-info probe exited non-zero although it wrote deps.d, both hash_all
\* of the externs succeeded, and the derivation ended with an error.
C14_Witness ==
    /\ pc = "error"
    /\ DepProbeFailed /\ dep_out.file # <<>>
    /\ extern_hashes # <<>> /\ extern_hashes[1].ok
    /\ result = <<>>

----------------------------------------------------------------------------
(* C15: the lifetime of the temporary directory *)

\* The dep-info probe runs or deps.d is being read and parsed, for a derivation
\* that still waits for the result.
ProbeOrParseAwaited == stage \in {"probe", "parse"}

\* The dep-info probe runs or deps.d is being read and parsed, awaited or not.
ProbeOrParseRuns == stage \in {"probe", "parse", "orphaned"}

\* The temporary directory is gone once the key derivation has ended, whether it
\* returned, failed or was dropped, and as soon as deps.d has been parsed.
DeletedAtExit ==
    /\ Ended => temp_dir # "exists"
    /\ stage \in {"hash", "done"} => temp_dir = "deleted"

\* C15 as stated: the temporary directory exists while the dep-info probe runs
\* and while deps.d is read and parsed, and it is gone once the key derivation
\* has ended, on every exit path.
C15_TempDirLifetimeAsStated ==
    /\ ProbeOrParseRuns => temp_dir = "exists"
    /\ DeletedAtExit

\* C15: the temporary directory exists while the dep-info probe runs and while
\* deps.d is read and parsed for a derivation that has neither failed nor been
\* dropped, and it is gone once the key derivation has ended, on every exit path.
C15_TempDirLifetime ==
    /\ ProbeOrParseAwaited => temp_dir = "exists"
    /\ DeletedAtExit

\* The derivation was dropped by its caller while deps.d was being parsed.
C15_Witness ==
    /\ pc = "abandoned"
    /\ stage = "orphaned"
    /\ dep_out # NoResult /\ dep_out.ok
    /\ deps = <<>>
    /\ temp_dir = "deleted"

----------------------------------------------------------------------------
(* C16: the outputs of the compilation handle *)

\* The non-empty lines of the text.
NonEmptyLines(text) == { l \in Range(Lines(text)) : l # "" }

\* C16: the keys of the outputs map of the returned handle are exactly the
\* non-empty lines of the standard output of the file-names probe, and the
\* dep-info file name when parse_arguments synthesized one; every key maps to
\* the output directory joined with it.
C16_OutputsKeys ==
    Hashed =>
        LET outputs == result[1].compilation.outputs IN
        /\ DOMAIN outputs =
              NonEmptyLines(names_out.stdout) \cup Range(parsed.args.dep_info)
        /\ \A k \in DOMAIN outputs : outputs[k] = PathJoin(parsed.args.output_dir, k)

----------------------------------------------------------------------------
(* C17: the arguments the compiler is spawned with *)

\* Compilation::compile has spawned the compiler.
Compiled == pc = "compiled"

\* C17: the argument vector compile spawns the compiler with is the argument
\* vector parse_arguments was given, token for token and in the same order.
C17_OriginalArguments ==
    Compiled => spawned[1].arguments = argv

----------------------------------------------------------------------------
(* C18: what an accepted command line holds *)

\* The part of an --extern value after its first `=`, if it has one.
RightHandSide(value) ==
    LET at == { i \in 1..Len(value) : Char(value, i) = "=" } IN
    IF at = {} THEN <<>>
    ELSE <<SubSeq(value, (CHOOSE i \in at : \A j \in at : i <= j) + 1, Len(value))>>

\* The right-hand sides of the `--extern name=path` values, in occurrence order.
RECURSIVE ExternValues(_)
ExternValues(pairs) ==
    IF pairs = <<>> THEN <<>>
    ELSE LET p == Head(pairs) IN
         (IF p[1] = "--extern" /\ p[2] # <<>> THEN RightHandSide(p[2][1]) ELSE <<>>)
            \o ExternValues(Tail(pairs))

\* The list is the list `of`, sorted.
IsSorted(list, of) ==
    /\ IsSortedStr(list)
    /\ Len(list) = Len(of)
    /\ \A i \in 1..Len(of) : CountOf(list, of[i]) = CountOf(of, of[i])

\* Every pair with the flag has a value, and there is one.
HasValue(pairs, flag) ==
    /\ Occurrences(pairs, flag) # {}
    /\ \A i \in Occurrences(pairs, flag) : pairs[i][2] # <<>>

\* C18: when parse_arguments returns Ok, every argument is UTF-8, exactly one
\* input file was seen, --out-dir, --crate-name and --emit have a value, the
\* emit set is {link} or {link, dep-info}, no pair has a flag that ends the scan
\* (-o, -l, `-`, --help, -V, --version, --print, --explain, --pretty, --unpretty),
\* every kind of every --crate-type value is lib, rlib or staticlib, and externs
\* is the sorted list of the right-hand sides of the `--extern name=path` values.
C18_AcceptedCommandLine ==
    (Parsed /\ parsed.tag = "Ok") =>
        LET pairs == ArgsIter(argv) IN
        /\ AllUtf8(argv)
        /\ Cardinality(Inputs(pairs)) = 1
        /\ HasValue(pairs, "--out-dir")
        /\ HasValue(pairs, "--crate-name")
        /\ HasValue(pairs, "--emit")
        /\ EmitKinds(pairs) \in {{"link"}, {"link", "dep-info"}}
        /\ \A i \in 1..Len(pairs) :
              /\ pairs[i][1] \notin {"-o", "-l", "-", "--help", "-V", "--version",
                                     "--print", "--explain", "--pretty", "--unpretty"}
              /\ (pairs[i][1] = "--crate-type" /\ pairs[i][2] # <<>>) =>
                    Kinds(pairs[i][2][1]) \subseteq {"lib", "rlib", "staticlib"}
        /\ IsSorted(parsed.args.externs, ExternValues(pairs))

\* An accepted command line with a --crate-type value and two externs.
C18_Witness ==
    /\ Parsed
    /\ parsed.tag = "Ok"
    /\ parsed.args.externs = <<"a.rlib", "b.rlib">>
    /\ \E i \in 1..Len(argv) : argv[i] = "--crate-type=rlib,staticlib"
    /\ LastValue(ArgsIter(argv), "--crate-type") = <<"rlib,staticlib">>

----------------------------------------------------------------------------
(* C19: the scan returns at the first terminal pair *)

\* What the pair at position i makes parse_arguments return, if it ends the scan.
Classification(pairs, i) ==
    LET flag == pairs[i][1]
        val  == pairs[i][2]
    IN  IF flag \in {"--help", "-V", "--version", "--print", "--explain",
                     "--pretty", "--unpretty"} THEN <<NotCompilation>>
        ELSE IF flag = "-o" THEN <<CannotCache("-o")>>
        ELSE IF flag = "-l" THEN <<CannotCache("-l")>>
        ELSE IF flag = "--emit" /\ \E j \in 1..(i - 1) : pairs[j][1] = "--emit"
             THEN <<CannotCache("more than one --emit")>>
        ELSE IF flag = "--crate-type" /\ val # <<>>
                  /\ Kinds(val[1]) \ {"lib", "rlib", "staticlib"} # {}
             THEN <<CannotCache("crate-type")>>
        ELSE IF flag = "-" THEN <<CannotCache("stdin")>>
        ELSE IF Char(flag, 1) # "-" /\ \E j \in 1..(i - 1) : Char(pairs[j][1], 1) # "-"
             THEN <<CannotCache("multiple input files")>>
        ELSE <<>>

\* The positions of the pairs that meet a terminal condition.
Terminals(pairs) == { i \in 1..Len(pairs) : Classification(pairs, i) # <<>> }

\* What parse_arguments returns when the scan has reached the end of the pairs.
AfterScan ==
    { CannotCache(why) : why \in { "missing input", "missing output_dir",
                                   "missing emit", "missing crate_name",
                                   "unsupported --emit" } }
        \cup {NotCompilation}

\* C19: a non-UTF-8 argument gives CannotCache("not utf-8"); otherwise the first
\* pair, in occurrence order, that meets a terminal condition decides what
\* parse_arguments returns, whatever follows it; without such a pair the result
\* is Ok or one of the results of the checks after the scan.
C19_FirstTerminalPair ==
    Parsed =>
        LET pairs == ArgsIter(argv)
            terminals == Terminals(pairs)
        IN  IF ~AllUtf8(argv) THEN parsed = CannotCache("not utf-8")
            ELSE IF terminals # {}
            THEN parsed = Classification(pairs,
                             CHOOSE i \in terminals : \A j \in terminals : i <= j)[1]
            ELSE parsed.tag = "Ok" \/ parsed \in AfterScan

\* -l before --help: the command line cannot be cached.
C19_Witness ==
    /\ Parsed
    /\ parsed = CannotCache("-l")
    /\ LET pairs == ArgsIter(argv) IN
       \E i, j \in 1..Len(pairs) : i < j /\ pairs[i][1] = "-l" /\ pairs[j][1] = "--help"

----------------------------------------------------------------------------
(* C20: ArgsIter consumes every token once *)

\* The token matches the set of the flags that take a value.
TakesValue(token) == \E a \in ARGS_WITH_VALUE : StartsWith(token, a)

HasEq(token) == \E i \in 1..Len(token) : Char(token, i) = "="

\* The pairs account for the tokens, one after the other: a pair without a value
\* is one token, a pair with a value is a flag token and the token after it, or
\* one token split at its first `=`.
RECURSIVE Consumes(_, _)
Consumes(pairs, tokens) ==
    IF pairs = <<>> THEN tokens = <<>>
    ELSE /\ tokens # <<>>
         /\ LET p == Head(pairs)
                t == Head(tokens)
            IN  IF p[2] = <<>>
                THEN /\ t = p[1]
                     /\ TakesValue(t) => Len(tokens) = 1
                     /\ Consumes(Tail(pairs), Tail(tokens))
                ELSE /\ TakesValue(t)
                     /\ IF HasEq(t)
                        THEN /\ t = p[1] \o "=" \o p[2][1]
                             /\ ~HasEq(p[1])
                             /\ Consumes(Tail(pairs), Tail(tokens))
                        ELSE /\ t = p[1]
                             /\ Len(tokens) >= 2
                             /\ tokens[2] = p[2][1]
                             /\ Consumes(Tail(pairs), Tail(Tail(tokens)))

\* C20: ArgsIter yields finitely many pairs, and they account for every token of
\* the argument vector exactly once and in order: a token is the flag of a pair,
\* the detached value of the pair before it, or, when it matches the
\* value-taking set and holds `=`, the flag and the value of one pair, split at
\* its first `=`; a value-taking flag that is the last token has no value.
C20_EveryTokenOnce ==
    Parsed =>
        LET pairs == ArgsIter(argv) IN
        /\ Len(pairs) <= Len(argv)
        /\ Consumes(pairs, argv)

\* A command line with an attached value, a detached value, and a value-taking
\* flag as its last token.
C20_Witness ==
    /\ Parsed
    /\ argv[Len(argv)] = "--cfg"
    /\ \E i \in 1..Len(argv) : argv[i] = "--emit=link"
    /\ LET pairs == ArgsIter(argv) IN
       /\ pairs[Len(pairs)] = <<"--cfg", <<>> >>
       /\ pairs[1] = <<"--emit", <<"link">> >>
       /\ \E i \in 1..Len(pairs) : pairs[i] = <<"--out-dir", <<"out">> >>

----------------------------------------------------------------------------
(* C21: the file-names probe comes last *)

\* The closure of hashes.and_then has run: it has fed the digest and launched
\* the file-names probe.
FileNamesProbeLaunched == m # ""

\* Every task of the list has completed successfully.
AllSucceeded(tasks) == \A i \in 1..Len(tasks) : tasks[i] # <<>> /\ tasks[i][1].ok

\* Something has failed before the join completed.
HashingFailure ==
    \/ TempDirFailed
    \/ DepProbeFailed
    \/ DepFileUnreadable
    \/ TaskFailed(source_tasks)
    \/ TaskFailed(extern_tasks)

\* C21: the file-names probe is launched only after the dep-info probe has been
\* launched and has succeeded, deps.d has been parsed, and every source and
\* extern hash task has completed successfully; once any of those has failed
\* the file-names probe is not launched and never exits.
C21_FileNamesProbeLast ==
    /\ FileNamesProbeLaunched =>
          /\ dep_out # NoResult /\ dep_out.ok
          /\ dep_out.file # <<>> /\ IsUtf8(dep_out.file[1])
          /\ stage = "done"
          /\ Len(source_tasks) = Len(deps[1]) /\ AllSucceeded(source_tasks)
          /\ Len(extern_tasks) = Len(parsed.args.externs) /\ AllSucceeded(extern_tasks)
    /\ HashingFailure => ~FileNamesProbeLaunched /\ names_out = NoResult
    /\ names_out # NoResult => FileNamesProbeLaunched
    /\ pc \in {"outputs", "done", "compiled"} => FileNamesProbeLaunched

\* The file-names probe has exited after two source and two extern hash tasks.
C21_Witness ==
    /\ pc = "outputs"
    /\ names_out # NoResult
    /\ Len(source_tasks) = 2
    /\ Len(extern_tasks) = 2
    /\ dep_out.ok

----------------------------------------------------------------------------
(* C22: native libraries and output files *)

\* A pair asks for a native library or an output file: its flag is -l or -o,
\* detached or split at `=`, or begins with -l or -o.
LinksOrOutputs(pairs) ==
    \E i \in 1..Len(pairs) :
        StartsWith(pairs[i][1], "-l") \/ StartsWith(pairs[i][1], "-o")

\* C22: parse_arguments does not return Ok for an argument vector that asks for
\* a native library or an output file, written detached (`-l name`), attached
\* with `=` (`-l=name`) or attached without a separator (`-lname`).
C22_NativeLibsOrOutput ==
    (Parsed /\ LinksOrOutputs(ArgsIter(argv))) => parsed.tag # "Ok"

====
